---- MODULE Spec2Model ----
(***************************************************************************)
(* Model of PixiParticles: ParticleUtils (src/src/ParticleUtils.js) and    *)
(* the polygonal-chain spawn strategy (src/unnamed/part_000).              *)
(*                                                                         *)
(* Numbers are exact rationals carried as scaled integers:                 *)
(*   - an ease time is easeIn.time / TimeDen;                              *)
(*   - ease values s, cp, e are carried in halves (0.5 is 1, 1 is 2) and   *)
(*     an ease result in units of 1 / (2 * TimeDen^2);                     *)
(*   - Math.random() is k / RandDen, 0 <= k < RandDen;                     *)
(*   - a particle rotation is carried in units of 1 / RandDen degrees.     *)
(* Strings are sequences of one-character strings.                         *)
(***************************************************************************)
EXTENDS Integers, Sequences, FiniteSets, TLC

VARIABLES ease, rgb, hex, blend, emitter, tempPoint, particle, hist

vars == <<ease, rgb, hex, blend, emitter, tempPoint, particle, hist>>

(* ---------------------------------------------------------------------- *)
(* Bounds                                                                  *)
(* ---------------------------------------------------------------------- *)
MaxSegs == 2
TimeDen == 4
MaxVal == 2
ChanEdge == 1
MaxPriorLen == 5
MaxNameLen == 3
MaxVerts == 2
SampDen == 2
RandDen == 2

(* ---------------------------------------------------------------------- *)
(* Idle values of the parts a specification does not exercise              *)
(* ---------------------------------------------------------------------- *)
IdleEase == [pc |-> "idle"]
IdleRgb == [pc |-> "idle"]
IdleHex == [pc |-> "idle"]
IdleBlend == [pc |-> "idle"]
IdleEmitter == [pc |-> "idle"]
IdlePoint == [x |-> 0, y |-> 0]
IdleParticle == [pc |-> "idle"]
IdleHist == [pc |-> "idle"]

(* ====================================================================== *)
(* ParticleUtils.generateEase                                              *)
(* ====================================================================== *)
EaseVals == 0..MaxVal
EaseSegment == [s : EaseVals, cp : EaseVals, e : EaseVals]
EaseSegLists == UNION {[1..n -> EaseSegment] : n \in 1..MaxSegs}

(* var i = (qty * time) | 0;  time = k / TimeDen, qty * time >= 0 *)
EaseFloorIndex(qty, k) == (qty * k) \div TimeDen

(* t = (time - (i * oneOverQty)) * qty, as a numerator over TimeDen *)
EaseLocalT(qty, k, i) == qty * k - i * TimeDen

(* s = segments[i] || segments[qty - 1]; the 0-based index of the segment  *)
(* evaluated, -1 when the expression yields undefined                      *)
EaseSegNoFallback(qty, i) == IF i >= 0 /\ i < qty THEN i ELSE -1

EaseSegIndex(qty, i) == IF i >= 0 /\ i < qty THEN i ELSE qty - 1

(* s.s + t * (2 * (1 - t) * (s.cp - s.s) + t * (s.e - s.s)),               *)
(* in units of 1 / (2 * TimeDen^2)                                         *)
EaseBlend(sg, tn) ==
    sg.s * TimeDen * TimeDen
      + tn * (2 * (TimeDen - tn) * (sg.cp - sg.s) + tn * (sg.e - sg.s))

InitEase ==
    /\ ease \in [pc : {"ready"}, segments : EaseSegLists, time : 0..TimeDen,
                 seg : {-1}, t : {0}, value : {0}, threw : {FALSE}]
    /\ rgb = IdleRgb /\ hex = IdleHex /\ blend = IdleBlend
    /\ emitter = IdleEmitter /\ tempPoint = IdlePoint
    /\ particle = IdleParticle /\ hist = IdleHist

(* one call of the function returned by generateEase(segments) *)
simpleEase ==
    /\ ease.pc = "ready"
    /\ LET qty == Len(ease.segments)
           i == EaseFloorIndex(qty, ease.time)
           tn == EaseLocalT(qty, ease.time, i)
           si == EaseSegIndex(qty, i)
       IN  ease' = IF si = -1
                   THEN [ease EXCEPT !.pc = "done", !.seg = -1, !.t = tn,
                                     !.threw = TRUE]
                   ELSE [ease EXCEPT !.pc = "done", !.seg = si, !.t = tn,
                                     !.value = EaseBlend(ease.segments[si + 1], tn)]
    /\ UNCHANGED <<rgb, hex, blend, emitter, tempPoint, particle, hist>>

NextEase == simpleEase

SpecEase == InitEase /\ [][NextEase]_vars

(* C1: the ease function returns the first segment's start value s at      *)
(* time = 0 and the last segment's end value e at time = 1; for the single *)
(* segment {s:0, cp:0.5, e:1} it returns 0, 0.5 and 1 at time 0, 0.5, 1.   *)
EaseEndpoints ==
    ease.pc = "done" =>
      LET qty == Len(ease.segments)
          unit == TimeDen * TimeDen
      IN  /\ ~ease.threw
          /\ ease.time = 0 => ease.value = ease.segments[1].s * unit
          /\ ease.time = TimeDen => ease.value = ease.segments[qty].e * unit
          /\ (qty = 1 /\ ease.segments[1] = [s |-> 0, cp |-> 1, e |-> 2]
                /\ 2 * ease.time = TimeDen)
               => ease.value = 1 * unit

(* C8: for time in [0,1) the segment evaluated is number floor(qty*time)   *)
(* with local parameter t = qty*time - floor(qty*time) in [0,1); at        *)
(* time = 1 the last segment is evaluated; the segment is never undefined. *)
EasePartition ==
    ease.pc = "done" =>
      LET qty == Len(ease.segments)
          k == ease.time
      IN  /\ ease.seg \in 0..(qty - 1)
          /\ ~ease.threw
          /\ k < TimeDen =>
               /\ ease.seg * TimeDen <= qty * k
               /\ qty * k < (ease.seg + 1) * TimeDen
               /\ ease.t = qty * k - ease.seg * TimeDen
               /\ ease.t >= 0 /\ ease.t < TimeDen
          /\ k = TimeDen => ease.seg = qty - 1

EasePartitionWitness ==
    /\ ease.pc = "done"
    /\ Len(ease.segments) = 2
    /\ ease.time = TimeDen
    /\ ease.seg = 1

(* ====================================================================== *)
(* ParticleUtils.combineRGBComponents                                      *)
(* ====================================================================== *)
TwoTo30 == 1073741824

(* 32-bit integers are the integers -2^31 .. 2^31 - 1, two's complement:   *)
(* x % 2 is the low bit and x \div 2 the arithmetic shift right by one.    *)

(* 2^n for 0 <= n <= 30 *)
Pow2(n) ==
    <<1, 2, 4, 8, 16, 32,
      64, 128, 256, 512, 1024, 2048,
      4096, 8192, 16384, 32768, 65536, 131072,
      262144, 524288, 1048576, 2097152, 4194304, 8388608,
      16777216, 33554432, 67108864, 134217728, 268435456, 536870912,
      1073741824>>[n + 1]

(* a << n on 32-bit integers; the shift count is taken modulo 32: the low  *)
(* 31 - n bits move up and bit 31 - n becomes the sign bit                 *)
ShiftLeft(a, n) ==
    LET c == n % 32
        low == a % Pow2(31 - c)
        sign == (a \div Pow2(31 - c)) % 2
        moved == IF low = 0 THEN 0 ELSE low * Pow2(c)
    IN  IF c = 0 THEN a
        ELSE IF sign = 1 THEN (moved - TwoTo30) - TwoTo30
        ELSE moved

(* bit i of a 32-bit integer, 0 <= i <= 31 *)
BitAt(a, i) == IF i = 31 THEN (IF a < 0 THEN 1 ELSE 0) ELSE (a \div Pow2(i)) % 2

RECURSIVE OrBits(_, _, _)
OrBits(a, b, i) ==
    LET bit == IF BitAt(a, i) = 1 \/ BitAt(b, i) = 1 THEN 1 ELSE 0
    IN  IF i = 31 THEN 0 - bit
        ELSE bit + 2 * OrBits(a, b, i + 1)

(* a | b on 32-bit integers (the operands are evaluated once) *)
BitOr(a, b) == CHOOSE v \in {OrBits(x, y, 0) : x \in {a}, y \in {b}} : TRUE

(* return r << 16 | g << 8 | b, with the green shift dropped to 4 *)
combineRGBNarrowGreen(r, g, b) == BitOr(BitOr(ShiftLeft(r, 16), ShiftLeft(g, 4)), b)

(* return r << 16 | g << 8 | b;  << binds tighter than | *)
combineRGBComponents(r, g, b) == BitOr(BitOr(ShiftLeft(r, 16), ShiftLeft(g, 8)), b)

(* the channel values enumerated: the low end of 0..255, the middle, 255 *)
Channels == (0..ChanEdge) \cup {64, 128, 255}

InitRgb ==
    /\ rgb \in [pc : {"ready"}, r : Channels, g : Channels, b : Channels,
                r2 : Channels, g2 : Channels, b2 : Channels,
                packed : {0}, packed2 : {0}]
    /\ ease = IdleEase /\ hex = IdleHex /\ blend = IdleBlend
    /\ emitter = IdleEmitter /\ tempPoint = IdlePoint
    /\ particle = IdleParticle /\ hist = IdleHist

(* two calls of combineRGBComponents, on (r, g, b) and on (r2, g2, b2) *)
CombineRGB ==
    /\ rgb.pc = "ready"
    /\ rgb' = [rgb EXCEPT !.pc = "done",
                          !.packed = combineRGBComponents(rgb.r, rgb.g, rgb.b),
                          !.packed2 = combineRGBComponents(rgb.r2, rgb.g2, rgb.b2)]
    /\ UNCHANGED <<ease, hex, blend, emitter, tempPoint, particle, hist>>

NextRgb == CombineRGB

SpecRgb == InitRgb /\ [][NextRgb]_vars

(* C7: for channels in 0..255 the packed value is r*65536 + g*256 + b, it  *)
(* lies in 0..0xFFFFFF, and two distinct channel triples never pack to the *)
(* same value; (255, 128, 64) packs to 0xFF8040.                           *)
CombinePacks ==
    rgb.pc = "done" =>
      /\ rgb.packed = rgb.r * 65536 + rgb.g * 256 + rgb.b
      /\ rgb.packed \in 0..16777215
      /\ <<rgb.r, rgb.g, rgb.b>> # <<rgb.r2, rgb.g2, rgb.b2>>
           => rgb.packed # rgb.packed2
      /\ (rgb.r = 255 /\ rgb.g = 128 /\ rgb.b = 64) => rgb.packed = 16744512

CombinePacksWitness ==
    /\ rgb.pc = "done"
    /\ rgb.r = 255 /\ rgb.g = 128 /\ rgb.b = 64
    /\ rgb.r2 = 255 /\ rgb.g2 = 128 /\ rgb.b2 = 0
    /\ rgb.packed = 16744512

(* ====================================================================== *)
(* String primitives used by hexToRGB and getBlendMode                     *)
(* ====================================================================== *)
(* str.charAt(i): the empty string past the end *)
CharAt(str, i) == IF i >= 0 /\ i < Len(str) THEN str[i + 1] ELSE ""

(* str.substr(start): from start to the end *)
SubstrFrom(str, start) ==
    IF start >= Len(str) THEN <<>> ELSE SubSeq(str, start + 1, Len(str))

(* str.substr(start, n): at most n characters from start *)
Substr(str, start, n) ==
    IF start >= Len(str) THEN <<>>
    ELSE SubSeq(str, start + 1,
                IF start + n > Len(str) THEN Len(str) ELSE start + n)

(* pat occurs in str at 0-based position i *)
OccursAt(str, pat, i) ==
    /\ i + Len(pat) <= Len(str)
    /\ \A j \in 1..Len(pat) : str[i + j] = pat[j]

(* str.indexOf(pat): the first position of pat, -1 when there is none *)
IndexOf(str, pat) ==
    LET hits == {i \in 0..Len(str) : OccursAt(str, pat, i)}
    IN  IF hits = {} THEN -1 ELSE CHOOSE i \in hits : \A j \in hits : i <= j

UpperHex == <<"0", "1", "2", "3", "4", "5", "6", "7", "8", "9",
              "A", "B", "C", "D", "E", "F">>
LowerHex == <<"0", "1", "2", "3", "4", "5", "6", "7", "8", "9",
              "a", "b", "c", "d", "e", "f">>

IsHexDigit(c) == \E v \in 1..16 : UpperHex[v] = c \/ LowerHex[v] = c
HexDigitValue(c) == (CHOOSE v \in 1..16 : UpperHex[v] = c \/ LowerHex[v] = c) - 1

(* NaN, kept apart from every value parseInt yields for unsigned digits *)
NaN == 0 - 1

RECURSIVE ParseHexPrefix(_, _, _)
ParseHexPrefix(str, pos, acc) ==
    IF pos > Len(str) \/ ~IsHexDigit(str[pos]) THEN acc
    ELSE ParseHexPrefix(str, pos + 1, acc * 16 + HexDigitValue(str[pos]))

(* parseInt(str, 16) of a string without sign or white space: the value of *)
(* the longest prefix of hex digits, NaN when that prefix is empty        *)
ParseInt16(str) ==
    IF Len(str) = 0 \/ ~IsHexDigit(str[1]) THEN NaN
    ELSE ParseHexPrefix(str, 1, 0)

(* ====================================================================== *)
(* ParticleUtils.hexToRGB                                                  *)
(* ====================================================================== *)
(* if (output) output.length = 0; else output = [];  with the clearing of  *)
(* a passed array left out                                                 *)
HexOutputKept(output) == IF output.passed THEN output.items ELSE <<>>

(* if (output) output.length = 0; else output = [];  the contents of the   *)
(* array that is filled                                                    *)
HexOutputStart(output) == <<>>

(* the prefix test: "#" is dropped, else a leading "0x" is dropped *)
HexStripPrefix(color) ==
    IF CharAt(color, 0) = "#" THEN SubstrFrom(color, 1)
    ELSE IF IndexOf(color, <<"0", "x">>) = 0 THEN SubstrFrom(color, 2)
    ELSE color

(* the whole function: the contents of the returned array *)
hexToRGB(color, output) ==
    LET out0 == HexOutputStart(output)
        c1 == HexStripPrefix(color)
        hasAlpha == Len(c1) = 8
        alpha == IF hasAlpha THEN Substr(c1, 0, 2) ELSE <<>>
        c2 == IF hasAlpha THEN SubstrFrom(c1, 2) ELSE c1
        out3 == out0 \o <<ParseInt16(Substr(c2, 0, 2)),
                          ParseInt16(Substr(c2, 2, 2)),
                          ParseInt16(Substr(c2, 4, 2))>>
    IN  (* if (alpha): undefined and the empty string are falsy *)
        IF hasAlpha /\ alpha # <<>>
        THEN out3 \o <<ParseInt16(alpha)>>
        ELSE out3

(* the hex digits the colours are drawn from: both letter cases *)
HexSample == {"0", "f", "A"}
HexPrefixes == {<<>>, <<"#">>, <<"0", "x">>}
HexDigitStrings == [1..6 -> HexSample] \cup [1..8 -> HexSample]

(* a previously used output array, or none *)
PriorOutputs ==
    {[passed |-> FALSE, items |-> <<>>]}
      \cup {[passed |-> TRUE, items |-> [i \in 1..n |-> 7 * i]] : n \in 0..MaxPriorLen}

InitHex ==
    /\ \E d \in HexDigitStrings, pre \in HexPrefixes, o \in PriorOutputs :
         hex = [pc |-> "ready", digits |-> d, prefix |-> pre, color |-> pre \o d,
                output |-> o, result |-> <<>>, sameArray |-> FALSE]
    /\ ease = IdleEase /\ rgb = IdleRgb /\ blend = IdleBlend
    /\ emitter = IdleEmitter /\ tempPoint = IdlePoint
    /\ particle = IdleParticle /\ hist = IdleHist

HexToRGB ==
    /\ hex.pc = "ready"
    /\ hex' = [hex EXCEPT !.pc = "done",
                          !.result = hexToRGB(hex.color, hex.output),
                          !.sameArray = hex.output.passed]
    /\ UNCHANGED <<ease, rgb, blend, emitter, tempPoint, particle, hist>>

NextHex == HexToRGB

SpecHex == InitHex /\ [][NextHex]_vars

(* the channel written as the two hex digits d[i], d[i+1] *)
ChannelOf(d, i) == 16 * HexDigitValue(d[i]) + HexDigitValue(d[i + 1])

(* C2: the result depends only on the hex digits: with 6 digits it is      *)
(* [r, g, b], with 8 digits [r, g, b, a] with alpha read from the first    *)
(* two digits, whatever the prefix ("#", "0x" or none); every channel is   *)
(* in 0..255; a passed array is returned with exactly these elements.      *)
HexFormsAgree ==
    hex.pc = "done" =>
      LET d == hex.digits
      IN  /\ Len(d) = 6 =>
               hex.result = <<ChannelOf(d, 1), ChannelOf(d, 3), ChannelOf(d, 5)>>
          /\ Len(d) = 8 =>
               hex.result = <<ChannelOf(d, 3), ChannelOf(d, 5), ChannelOf(d, 7),
                              ChannelOf(d, 1)>>
          /\ \A i \in 1..Len(hex.result) : hex.result[i] \in 0..255
          /\ hex.output.passed => hex.sameArray

HexFormsAgreeWitness ==
    /\ hex.pc = "done"
    /\ hex.color = <<"0", "x", "A", "0", "f", "f", "0", "A", "0", "0">>
    /\ hex.output = [passed |-> TRUE, items |-> <<7, 14, 21, 28, 35>>]
    /\ hex.sameArray
    /\ hex.result = <<255, 10, 0, 160>>

(* ====================================================================== *)
(* ParticleUtils.getBlendMode                                              *)
(* ====================================================================== *)
(* PIXI.BLEND_MODES, the enumeration of the rendering library *)
BLEND_MODES ==
    { [name |-> <<"N", "O", "R", "M", "A", "L">>, value |-> 0],
      [name |-> <<"A", "D", "D">>, value |-> 1],
      [name |-> <<"M", "U", "L", "T", "I", "P", "L", "Y">>, value |-> 2],
      [name |-> <<"S", "C", "R", "E", "E", "N">>, value |-> 3],
      [name |-> <<"O", "V", "E", "R", "L", "A", "Y">>, value |-> 4],
      [name |-> <<"D", "A", "R", "K", "E", "N">>, value |-> 5],
      [name |-> <<"L", "I", "G", "H", "T", "E", "N">>, value |-> 6],
      [name |-> <<"C", "O", "L", "O", "R", "_", "D", "O", "D", "G", "E">>, value |-> 7],
      [name |-> <<"C", "O", "L", "O", "R", "_", "B", "U", "R", "N">>, value |-> 8],
      [name |-> <<"H", "A", "R", "D", "_", "L", "I", "G", "H", "T">>, value |-> 9],
      [name |-> <<"S", "O", "F", "T", "_", "L", "I", "G", "H", "T">>, value |-> 10],
      [name |-> <<"D", "I", "F", "F", "E", "R", "E", "N", "C", "E">>, value |-> 11],
      [name |-> <<"E", "X", "C", "L", "U", "S", "I", "O", "N">>, value |-> 12],
      [name |-> <<"H", "U", "E">>, value |-> 13],
      [name |-> <<"S", "A", "T", "U", "R", "A", "T", "I", "O", "N">>, value |-> 14],
      [name |-> <<"C", "O", "L", "O", "R">>, value |-> 15],
      [name |-> <<"L", "U", "M", "I", "N", "O", "S", "I", "T", "Y">>, value |-> 16],
      [name |-> <<"N", "O", "R", "M", "A", "L", "_", "N", "P", "M">>, value |-> 17],
      [name |-> <<"A", "D", "D", "_", "N", "P", "M">>, value |-> 18],
      [name |-> <<"S", "C", "R", "E", "E", "N", "_", "N", "P", "M">>, value |-> 19] }

BLEND_NORMAL == 0
BlendValues == {m.value : m \in BLEND_MODES}

LowerLetters == <<"a", "b", "c", "d", "e", "f", "g", "h", "i", "j", "k", "l", "m", "n", "o", "p", "q", "r", "s", "t", "u", "v", "w", "x", "y", "z">>
UpperLetters == <<"A", "B", "C", "D", "E", "F", "G", "H", "I", "J", "K", "L", "M", "N", "O", "P", "Q", "R", "S", "T", "U", "V", "W", "X", "Y", "Z">>

(* toUpperCase left out: the character is kept as it is *)
CharKeepCase(c) == c

(* toUpperCase of one character *)
CharToUpper(c) ==
    IF \E i \in 1..26 : LowerLetters[i] = c
    THEN UpperLetters[CHOOSE i \in 1..26 : LowerLetters[i] = c]
    ELSE c

(* name.toUpperCase() *)
ToUpperCase(str) == [i \in 1..Len(str) |-> CharToUpper(str[i])]

(* name.replace(" ", "_"): a string pattern replaces the first match only *)
ReplaceFirstSpace(str) ==
    LET at == IndexOf(str, <<" ">>)
    IN  IF at < 0 THEN str
        ELSE SubSeq(str, 1, at) \o <<"_">> \o SubSeq(str, at + 2, Len(str))

(* BLEND_MODES[name] || BLEND_MODES.NORMAL: an absent key and the value 0  *)
(* are both falsy                                                          *)
BlendLookup(name) ==
    LET found == {m \in BLEND_MODES : m.name = name}
    IN  IF found = {} THEN BLEND_NORMAL
        ELSE LET v == (CHOOSE m \in found : TRUE).value
             IN  IF v = 0 THEN BLEND_NORMAL ELSE v

(* every spelling of an enumerated name: any letters in lower case, any    *)
(* underscores written as spaces                                           *)
AltChar(c) ==
    IF c = "_" THEN " "
    ELSE LowerLetters[CHOOSE i \in 1..26 : UpperLetters[i] = c]

Spellings(key) ==
    {[i \in 1..Len(key) |-> IF i \in S THEN AltChar(key[i]) ELSE key[i]] :
        S \in SUBSET (1..Len(key))}

(* short names over a few characters: mostly unrecognized, runs of spaces *)
NameChars == {"a", "d", "D", " ", "_"}
ShortNames == UNION {[1..n -> NameChars] : n \in 0..MaxNameLen}

(* the enumerated names whose spellings are all tried *)
SpelledValues == {0, 1, 3, 9, 13, 15, 18}

BlendArgs ==
    {[defined |-> FALSE, str |-> <<>>]}
      \cup {[defined |-> TRUE, str |-> n] :
              n \in ShortNames
                \cup UNION {Spellings(m.name) :
                              m \in {k \in BLEND_MODES : k.value \in SpelledValues}}}

InitBlend ==
    /\ \E a \in BlendArgs :
         blend = [pc |-> "ready", arg |-> a, name |-> a.str, result |-> 0 - 1]
    /\ ease = IdleEase /\ rgb = IdleRgb /\ hex = IdleHex
    /\ emitter = IdleEmitter /\ tempPoint = IdlePoint
    /\ particle = IdleParticle /\ hist = IdleHist

(* if (!name) return BLEND_MODES.NORMAL;  name = name.toUpperCase(); *)
BlendEnter ==
    /\ blend.pc = "ready"
    /\ blend' = IF ~blend.arg.defined \/ blend.name = <<>>
                THEN [blend EXCEPT !.pc = "done", !.result = BLEND_NORMAL]
                ELSE [blend EXCEPT !.pc = "loop", !.name = ToUpperCase(blend.name)]
    /\ UNCHANGED <<ease, rgb, hex, emitter, tempPoint, particle, hist>>

(* while (name.indexOf(" ") >= 0) name = name.replace(" ", "_"); *)
BlendReplace ==
    /\ blend.pc = "loop"
    /\ IndexOf(blend.name, <<" ">>) >= 0
    /\ blend' = [blend EXCEPT !.name = ReplaceFirstSpace(blend.name)]
    /\ UNCHANGED <<ease, rgb, hex, emitter, tempPoint, particle, hist>>

(* return BLEND_MODES[name] || BLEND_MODES.NORMAL; *)
BlendReturn ==
    /\ blend.pc = "loop"
    /\ IndexOf(blend.name, <<" ">>) < 0
    /\ blend' = [blend EXCEPT !.pc = "done", !.result = BlendLookup(blend.name)]
    /\ UNCHANGED <<ease, rgb, hex, emitter, tempPoint, particle, hist>>

NextBlend == BlendEnter \/ BlendReplace \/ BlendReturn

(* a call that has started runs on: nothing in the function waits *)
SpecBlend == InitBlend /\ [][NextBlend]_vars /\ WF_vars(NextBlend)

(* the upper-case underscore name a spelling stands for *)
CanonicalName(str) ==
    [i \in 1..Len(str) |->
       IF str[i] = " " THEN "_"
       ELSE IF \E j \in 1..26 : LowerLetters[j] = str[i]
            THEN UpperLetters[CHOOSE j \in 1..26 : LowerLetters[j] = str[i]]
            ELSE str[i]]

ExpectedBlend(arg) ==
    IF ~arg.defined \/ arg.str = <<>> THEN BLEND_NORMAL
    ELSE LET found == {m \in BLEND_MODES : m.name = CanonicalName(arg.str)}
         IN  IF found = {} THEN BLEND_NORMAL
             ELSE (CHOOSE m \in found : TRUE).value

(* C3: every call terminates and returns a value of the enumeration: the   *)
(* value of the upper-case underscore name the argument spells, NORMAL for *)
(* an empty, undefined or unrecognized name.                               *)
BlendModeResolves ==
    (blend.pc = "ready")
      ~> (/\ blend.pc = "done"
          /\ blend.result \in BlendValues
          /\ blend.result = ExpectedBlend(blend.arg))

BlendModeResolvesWitness ==
    /\ blend.pc = "done"
    /\ blend.arg = [defined |-> TRUE, str |-> <<"h", "a", "r", "d", " ", "L", "i", "g", "h", "t">>]
    /\ blend.result = 9

(* ====================================================================== *)
(* ParticleUtils.rotatePoint                                               *)
(* ====================================================================== *)
(* the angles used are whole quarter turns, whose sine and cosine are      *)
(* taken as the exact values 0, 1, -1                                      *)
QuarterAngles == {0, 90, 180, 0 - 90}
Sin(deg) == IF deg = 90 THEN 1 ELSE IF deg = 0 - 90 THEN 0 - 1 ELSE 0
Cos(deg) == IF deg = 0 THEN 1 ELSE IF deg = 180 THEN 0 - 1 ELSE 0

(* p.x is overwritten before ynew is computed from it *)
rotatePointInPlace(angle, p) ==
    IF angle = 0 THEN p
    ELSE LET xnew == p.x * Cos(angle) - p.y * Sin(angle)
         IN  [x |-> xnew, y |-> xnew * Sin(angle) + p.y * Cos(angle)]

(* the point after rotatePoint(angle, p); if (!angle) return; *)
rotatePoint(angle, p) ==
    IF angle = 0 THEN p
    ELSE [x |-> p.x * Cos(angle) - p.y * Sin(angle),
          y |-> p.x * Sin(angle) + p.y * Cos(angle)]

(* ====================================================================== *)
(* PolygonalChain                                                          *)
(* ====================================================================== *)
Origin == [x |-> 0, y |-> 0]
GridPoints == {[x |-> SampDen, y |-> 0], [x |-> 0, y |-> SampDen]}

(* config.spawnPolygon: a list of vertices *)
Configs == UNION {[1..n -> GridPoints] : n \in 0..MaxVerts}

(* too few vertices, or no segment of positive length *)
Degenerate(pts) ==
    \/ Len(pts) < 2
    \/ \A i \in 1..(Len(pts) - 1) : pts[i] = pts[i + 1]

(* a constructor that accepts every vertex list *)
ChainAcceptsAll(pts) == FALSE

(* new PolygonalChain(data) throws a configuration error *)
ChainRejects(pts) == Degenerate(pts)

(* the chain built from a vertex list: one segment per consecutive pair *)
PolygonalChain(pts) ==
    [present |-> TRUE, points |-> pts,
     segments |-> [i \in 1..(IF Len(pts) = 0 THEN 0 ELSE Len(pts) - 1) |->
                     [p1 |-> pts[i], p2 |-> pts[i + 1]]]]

NoChain == [present |-> FALSE, points |-> <<>>, segments |-> <<>>]

(* the points getRandomPoint can write: a point of a segment of positive   *)
(* length, at a fraction k / SampDen < 1 of it; on a chain of zero length  *)
(* its single vertex                                                       *)
ChainPoints(chain) ==
    LET live == {i \in 1..Len(chain.segments) :
                   chain.segments[i].p1 # chain.segments[i].p2}
    IN  IF live = {}
        THEN {IF Len(chain.points) = 0 THEN Origin ELSE chain.points[1]}
        ELSE {[x |-> chain.segments[i].p1.x
                       + k * ((chain.segments[i].p2.x - chain.segments[i].p1.x)
                                \div SampDen),
               y |-> chain.segments[i].p1.y
                       + k * ((chain.segments[i].p2.y - chain.segments[i].p1.y)
                                \div SampDen)] :
                i \in live, k \in 0..(SampDen - 1)}

(* ====================================================================== *)
(* SpawnPolygonStrategy                                                    *)
(* ====================================================================== *)
StartRotations == {<<45, 45>>, <<0, 90>>, <<90, 0>>}
EmitPositions == {Origin, [x |-> 5, y |-> 0 - 3]}

NoConfig == [given |-> FALSE, pts |-> <<>>]
NoSpawn == [threw |-> FALSE, degenerate |-> FALSE, sample |-> Origin,
            emitPos |-> Origin, scratchBefore |-> Origin]

InitSpawn ==
    /\ \E rot \in QuarterAngles, sr \in StartRotations :
         emitter = [spawnType |-> "none", spawnPolygonalChain |-> NoChain,
                    rotation |-> rot,
                    minStartRotation |-> sr[1], maxStartRotation |-> sr[2]]
    /\ tempPoint = Origin
    /\ particle = [rotation |-> 0, x |-> 0, y |-> 0]
    /\ hist = [op |-> "none", config |-> NoConfig, parseThrew |-> FALSE,
               spawn |-> NoSpawn]
    /\ ease = IdleEase /\ rgb = IdleRgb /\ hex = IdleHex /\ blend = IdleBlend

(* parseConfig(emitter, config): the tag is set, then the chain is built;  *)
(* a constructor that throws leaves the second assignment undone           *)
ParseConfig(cfg) ==
    /\ emitter' = IF ChainRejects(cfg)
                  THEN [emitter EXCEPT !.spawnType = "polygonalChain"]
                  ELSE [emitter EXCEPT !.spawnType = "polygonalChain",
                                       !.spawnPolygonalChain = PolygonalChain(cfg)]
    /\ hist' = [op |-> "parseConfig", config |-> [given |-> TRUE, pts |-> cfg],
                parseThrew |-> ChainRejects(cfg), spawn |-> NoSpawn]
    /\ UNCHANGED <<tempPoint, particle, ease, rgb, hex, blend>>

(* the rotation with emitter.rotation left out of the fixed-angle branch *)
SpawnRotationNoOffset(em, k) ==
    IF em.minStartRotation = em.maxStartRotation
    THEN RandDen * em.minStartRotation
    ELSE k * (em.maxStartRotation - em.minStartRotation)
           + RandDen * (em.minStartRotation + em.rotation)

(* p.rotation in units of 1 / RandDen degrees, Math.random() = k / RandDen *)
SpawnRotation(em, k) ==
    IF em.minStartRotation = em.maxStartRotation
    THEN RandDen * (em.minStartRotation + em.rotation)
    ELSE k * (em.maxStartRotation - em.minStartRotation)
           + RandDen * (em.minStartRotation + em.rotation)

(* spawn(p, emitPosX, emitPosY) when emitter.spawnPolygonalChain is unset: *)
(* the rotation is assigned, then the call on the chain throws             *)
SpawnThrows(pos, k) ==
    /\ ~emitter.spawnPolygonalChain.present
    /\ particle' = [particle EXCEPT !.rotation = SpawnRotation(emitter, k)]
    /\ hist' = [hist EXCEPT !.op = "spawn",
                            !.spawn = [NoSpawn EXCEPT !.threw = TRUE,
                                                      !.emitPos = pos,
                                                      !.scratchBefore = tempPoint]]
    /\ UNCHANGED <<emitter, tempPoint, ease, rgb, hex, blend>>

(* spawn(p, emitPosX, emitPosY) on a chain: pt is what getRandomPoint      *)
(* writes into Temp.point                                                  *)
SpawnOnChain(pos, k, pt) ==
    /\ emitter.spawnPolygonalChain.present
    /\ pt \in ChainPoints(emitter.spawnPolygonalChain)
    /\ LET turned == IF emitter.rotation # 0
                     THEN rotatePoint(emitter.rotation, pt)
                     ELSE pt
       IN  /\ tempPoint' = turned
           /\ particle' = [rotation |-> SpawnRotation(emitter, k),
                           x |-> pos.x + turned.x, y |-> pos.y + turned.y]
    /\ hist' = [hist EXCEPT !.op = "spawn",
                            !.spawn = [threw |-> FALSE,
                                       degenerate |->
                                         Degenerate(emitter.spawnPolygonalChain.points),
                                       sample |-> pt, emitPos |-> pos,
                                       scratchBefore |-> tempPoint]]
    /\ UNCHANGED <<emitter, ease, rgb, hex, blend>>

NextSpawn ==
    \/ \E cfg \in Configs : ParseConfig(cfg)
    \/ \E pos \in EmitPositions, k \in 0..(RandDen - 1) : SpawnThrows(pos, k)
    \/ \E pos \in EmitPositions, k \in 0..(RandDen - 1) :
         \E pt \in ChainPoints(emitter.spawnPolygonalChain) : SpawnOnChain(pos, k, pt)

SpecSpawn == InitSpawn /\ [][NextSpawn]_vars

(* C4: after every spawn call, if minStartRotation equals maxStartRotation *)
(* the particle's rotation is exactly minStartRotation + emitter.rotation; *)
(* otherwise it lies between minStartRotation + emitter.rotation and       *)
(* maxStartRotation + emitter.rotation.                                    *)
SpawnRotationRule ==
    hist.op = "spawn" =>
      LET lo == RandDen * (emitter.minStartRotation + emitter.rotation)
          hi == RandDen * (emitter.maxStartRotation + emitter.rotation)
      IN  IF emitter.minStartRotation = emitter.maxStartRotation
          THEN particle.rotation = lo
          ELSE \/ lo <= particle.rotation /\ particle.rotation <= hi
               \/ hi <= particle.rotation /\ particle.rotation <= lo

SpawnRotationRuleWitness ==
    /\ hist.op = "spawn"
    /\ emitter.minStartRotation = 45 /\ emitter.maxStartRotation = 45
    /\ emitter.rotation = 90
    /\ particle.rotation = RandDen * 135

(* C5: after any sequence of parseConfig calls the emitter's spawnType is  *)
(* 'polygonalChain' and its spawnPolygonalChain is the chain built from    *)
(* the spawnPolygon of the last call's configuration.                      *)
ParseConfigReplaces ==
    hist.op = "parseConfig" =>
      /\ emitter.spawnType = "polygonalChain"
      /\ emitter.spawnPolygonalChain.present
      /\ emitter.spawnPolygonalChain.points = hist.config.pts

QuarterTurn(deg, p) ==
    IF deg = 90 THEN [x |-> 0 - p.y, y |-> p.x]
    ELSE IF deg = 180 THEN [x |-> 0 - p.x, y |-> 0 - p.y]
    ELSE IF deg = 0 - 90 THEN [x |-> p.y, y |-> 0 - p.x]
    ELSE p

(* C9: after a spawn call the particle's position is (emitPosX, emitPosY)  *)
(* plus the chain point sampled in that call, turned by emitter.rotation   *)
(* (unturned when it is zero), whatever the scratch point held before.     *)
SpawnPositionRule ==
    (hist.op = "spawn" /\ ~hist.spawn.threw) =>
      LET local == QuarterTurn(emitter.rotation, hist.spawn.sample)
      IN  /\ hist.spawn.sample \in ChainPoints(emitter.spawnPolygonalChain)
          /\ particle.x = hist.spawn.emitPos.x + local.x
          /\ particle.y = hist.spawn.emitPos.y + local.y
          /\ emitter.rotation = 0 =>
               /\ particle.x = hist.spawn.emitPos.x + hist.spawn.sample.x
               /\ particle.y = hist.spawn.emitPos.y + hist.spawn.sample.y

SpawnPositionRuleWitness ==
    /\ hist.op = "spawn" /\ ~hist.spawn.threw
    /\ emitter.rotation = 90
    /\ hist.spawn.sample = [x |-> SampDen - 1, y |-> 1]
    /\ hist.spawn.scratchBefore = [x |-> 0, y |-> SampDen]
    /\ hist.spawn.emitPos = [x |-> 5, y |-> 0 - 3]
    /\ particle.x = 4 /\ particle.y = SampDen - 4

(* C10: whenever emitter.spawnType is 'polygonalChain', the emitter's      *)
(* spawnPolygonalChain is present and is the chain built from the          *)
(* configuration of the most recent parseConfig call.                      *)
NoStaleChain ==
    emitter.spawnType = "polygonalChain" =>
      /\ emitter.spawnPolygonalChain.present
      /\ emitter.spawnPolygonalChain = PolygonalChain(hist.config.pts)

====
